---- MODULE Spec2Model ----
(***************************************************************************)
(* kitty-zoxide-sessions: one invocation of main() after the other over a  *)
(* shared session directory.  The filesystem (session directory, session   *)
(* files, log file) persists between invocations; everything else is the   *)
(* state of the running process.                                           *)
(***************************************************************************)
EXTENDS Integers, Sequences, FiniteSets, TLC

(***************************************************************************)
(* Bounds                                                                  *)
(***************************************************************************)
\* longest output (in lines) of `zoxide query -l` that is explored
MaxZoxide == 2

(***************************************************************************)
(* Constants of the program                                                *)
(***************************************************************************)
SESSION_ENTRY == "session"
PATH_ENTRY == "path"

\* the placeholders of a template
PH_PATH == "@@session-path@@"
PH_NAME == "@@session@@"

\* the two escape sequences label() emits; both match ANSI_ESCAPE_RE
ANSI_BOLD == "ESC[1m"
ANSI_RESET == "ESC[0m"

(***************************************************************************)
(* Strings.  A session name is a TLA+ string; where the code compares      *)
(* strings by code point (sorted() of paths) the name's characters are     *)
(* looked up in NameChars.                                                 *)
(***************************************************************************)
\* names of session files / base names of frecency paths that are explored
Names == {"a", "a-b"}

\* code points of a name ("z" stands for any other text)
NameChars(n) ==
    CASE n = "a" -> <<97>>
      [] n = "a-b" -> <<97, 45, 98>>
      [] OTHER -> <<122>>

\* code points of ".kitty-session"
ExtChars == <<46, 107, 105, 116, 116, 121, 45, 115, 101, 115, 115, 105, 111, 110>>

\* the file name <name>.kitty-session as code points
FileNameChars(n) == NameChars(n) \o ExtChars

\* s < t for two sequences of code points, as Python compares str
RECURSIVE StrLess(_, _)
StrLess(s, t) ==
    IF t = <<>> THEN FALSE
    ELSE IF s = <<>> THEN TRUE
    ELSE IF s[1] # t[1] THEN s[1] < t[1]
    ELSE StrLess(Tail(s), Tail(t))

\* order of two session files of one directory: Path.__lt__ on the file names
PathLess(n, m) == StrLess(FileNameChars(n), FileNameChars(m))

\* sorted(): the elements of S as a sequence ascending by PathLess
RECURSIVE Sorted(_)
Sorted(S) ==
    IF S = {} THEN <<>>
    ELSE LET least == CHOOSE n \in S : \A m \in S \ {n} : PathLess(n, m)
         IN  <<least>> \o Sorted(S \ {least})

\* whitespace characters removed by str.strip()
Whitespace == {" ", "\n", "\t"}

\* str.strip() on a sequence of characters or tokens
RECURSIVE LStrip(_)
LStrip(s) == IF s # <<>> /\ s[1] \in Whitespace THEN LStrip(Tail(s)) ELSE s
RECURSIVE RStrip(_)
RStrip(s) ==
    IF s # <<>> /\ s[Len(s)] \in Whitespace THEN RStrip(SubSeq(s, 1, Len(s) - 1)) ELSE s
Strip(s) == RStrip(LStrip(s))

\* str.lower() on one character, and on a sequence of characters
LowerChar(c) ==
    CASE c = "Y" -> "y" [] c = "E" -> "e" [] c = "S" -> "s"
      [] c = "N" -> "n" [] c = "O" -> "o" [] OTHER -> c
Lower(s) == [i \in 1..Len(s) |-> LowerChar(s[i])]

\* strip_ansi(): a text is a sequence of tokens, an escape sequence is one token
IsAnsiEscape(t) == t \in {ANSI_BOLD, ANSI_RESET}
strip_ansi(text) == SelectSeq(text, LAMBDA t : ~IsAnsiEscape(t))

(***************************************************************************)
(* Paths                                                                   *)
(***************************************************************************)
\* a frecency path is the sequence of its components; Path(p).name is the last
ZPaths == {<<"x", "a">>, <<"y", "a">>, <<"x", "a-b">>}
PathName(p) == p[Len(p)]

\* str of a path
RECURSIVE PathStr(_)
PathStr(p) == IF p = <<>> THEN "" ELSE "/" \o p[1] \o PathStr(Tail(p))

\* session_dir / f"{name}.kitty-session"; Path.stem gives the name back
SessionFile(n) == <<"kitty-sessions", n>>
PathStem(f) == f[2]

\* a blank line in the output of zoxide
BlankLine == <<"">>

\* the outputs of `zoxide query -l` that are explored, as sequences of lines
ZoxideLines == ZPaths \cup {BlankLine}
ZoxideOutputs == UNION {[1..k -> ZoxideLines] : k \in 0..MaxZoxide}

(***************************************************************************)
(* Session files and templates                                             *)
(***************************************************************************)
NoFile == <<"<absent>">>
\* text of a session file that was not written by this program
UserContent == <<"data">>

\* template texts as token sequences: the custom one of the tests, and the
\* bundled default.kitty-session
CustomTemplate == <<"path=", PH_PATH, " name=", PH_NAME>>
DefaultTemplate == <<"new_tab ", PH_NAME, "cd ", PH_PATH, "launch --title ", PH_NAME>>

\* str.replace(old, new) on a token sequence
Replace(text, old, new) == [i \in 1..Len(text) |-> IF text[i] = old THEN new ELSE text[i]]

\* the rendering at the end of session_data()
Render(template, session_path, session_name) ==
    Replace(Replace(template, PH_PATH, session_path), PH_NAME, session_name)

(***************************************************************************)
(* Pure parts of the operations                                            *)
(***************************************************************************)
FileExists(fs, n) == n \in DOMAIN fs /\ fs[n] # NoFile

\* list_session_files(): the stems of the session files, in sorted() order
list_session_files(exists, fs) ==
    IF ~exists THEN <<>> ELSE Sorted({n \in DOMAIN fs : fs[n] # NoFile})

\* SessionSelection.label()
label(label_text, ansi) ==
    IF ansi THEN <<ANSI_BOLD, label_text, ANSI_RESET>> ELSE <<label_text>>

\* the list comprehension of run(): the non-empty lines of the zoxide output
ZoxidePathsOf(output) == SelectSeq(output, LAMBDA line : line # BlankLine)

\* zoxide_by_name: setdefault keeps the first path of each base name
zoxide_by_name(paths) ==
    [n \in {PathName(paths[i]) : i \in 1..Len(paths)} |->
        paths[CHOOSE i \in 1..Len(paths) :
                /\ PathName(paths[i]) = n
                /\ \A j \in 1..(i - 1) : PathName(paths[j]) # n]]

\* filtered_zoxide without the filter
filtered_zoxide_keeps_all(paths, listed) == paths

\* filtered_zoxide comparing the whole path, not its base name, with the names
filtered_zoxide_whole_path(paths, listed) ==
    LET session_names == {listed[i] : i \in 1..Len(listed)}
    IN  SelectSeq(paths, LAMBDA p : PathStr(p) \notin session_names)

\* filtered_zoxide: the paths whose base name is no session name
filtered_zoxide(paths, listed) ==
    LET session_names == {listed[i] : i \in 1..Len(listed)}
    IN  SelectSeq(paths, LAMBDA p : PathName(p) \notin session_names)

\* entries: (label, type, value) for every session file, then every kept path
SessionEntries(listed, ansi) ==
    [i \in 1..Len(listed) |->
        <<label("[session]", ansi) \o <<" ", listed[i]>>, SESSION_ENTRY, SessionFile(listed[i])>>]
PathEntries(paths, ansi) ==
    [i \in 1..Len(paths) |->
        <<label("[zoxide]", ansi) \o <<" ", PathStr(paths[i])>>, PATH_ENTRY, paths[i]>>]
BuildEntries(listed, paths, ansi) ==
    SessionEntries(listed, ansi) \o PathEntries(filtered_zoxide(paths, listed), ansi)

\* "\n".join(label for label, _, _ in entries), kept as the sequence of lines
LabelsOf(es) == [i \in 1..Len(es) |-> es[i][1]]

\* the resolution comparing the selection with the labels as they are
ResolveEntry_exact(es, sel) ==
    LET hits == {i \in 1..Len(es) : es[i][1] = sel}
    IN  IF hits = {} THEN <<>>
        ELSE es[CHOOSE i \in hits : \A j \in hits : i <= j]

\* next(entry for entry in entries if strip_ansi(entry[0]) == selection_plain);
\* <<>> stands for None
ResolveEntry(es, sel) ==
    LET hits == {i \in 1..Len(es) : strip_ansi(es[i][1]) = strip_ansi(sel)}
    IN  IF hits = {} THEN <<>>
        ELSE es[CHOOSE i \in hits : \A j \in hits : i <= j]

\* what the selector process can do: binary missing, a non-zero exit, or exit 0
\* with a line of its input (as given, or with the escapes removed as
\* `fzf --ansi` prints it), an empty line, or a text that is no candidate
SelectorOutcomes(cands) ==
    {[found |-> FALSE, returncode |-> 0, stdout |-> <<>>]}
    \cup {[found |-> TRUE, returncode |-> rc, stdout |-> <<>>] : rc \in {1, 130}}
    \cup {[found |-> TRUE, returncode |-> 0, stdout |-> out] :
            out \in {cands[i] \o <<"\n">> : i \in 1..Len(cands)}
                \cup {strip_ansi(cands[i]) \o <<"\n">> : i \in 1..Len(cands)}
                \cup {<<"\n">>, <<"zz", "\n">>}}

\* select_item() that does not look at the exit code of the selector
select_item_ignores_returncode(outcome) ==
    IF ~outcome.found THEN <<<<>>, 1>> ELSE <<Strip(outcome.stdout), 0>>

\* select_item(): (selection, status) for an outcome of the selector
select_item(outcome) ==
    IF ~outcome.found THEN <<<<>>, 1>>
    ELSE IF outcome.returncode # 0 THEN <<<<>>, 2>>
    ELSE <<Strip(outcome.stdout), 0>>

\* the argv select_item() builds
FzfCommand(prompt, ansi) ==
    IF ansi THEN <<"fzf", "--ansi", "--reverse", "--no-sort", "--prompt", prompt>>
    ELSE <<"fzf", "--reverse", "--no-sort", "--prompt", prompt>>

\* end of input at the confirmation prompt
EOF == <<"<EOF>">>

\* what the user can answer to "Type 'yes' to continue: "
ConfirmInputs ==
    { <<"y", "e", "s">>, <<"Y", "E", "S">>, <<"Y", "e", "s">>, <<" ", "y", "e", "s", " ">>,
      <<"n", "o">>, <<"y">>, <<>>, EOF }

\* confirm_delete_all() that takes any answer starting with "y" for a yes
confirm_delete_all_prefix(typed) ==
    typed # EOF /\ Strip(typed) # <<>> /\ LowerChar(Strip(typed)[1]) = "y"

\* confirm_delete_all()
confirm_delete_all(typed) ==
    IF typed = EOF THEN FALSE ELSE Lower(Strip(typed)) = <<"y", "e", "s">>

\* the loop of DeleteAllSessions.run() leaving the loop at the first OSError
RECURSIVE DeleteBatch_stops(_, _, _)
DeleteBatch_stops(listed, fs, failing) ==
    IF listed = <<>> THEN [files |-> fs, failed |-> FALSE, attempted |-> <<>>]
    ELSE LET n == Head(listed)
             ok == (n \in DOMAIN fs /\ fs[n] # NoFile) /\ n \notin failing
             rest == DeleteBatch_stops(Tail(listed), [fs EXCEPT ![n] = NoFile], failing)
         IN  IF ~ok THEN [files |-> fs, failed |-> TRUE, attempted |-> <<n>>]
             ELSE [files |-> rest.files, failed |-> rest.failed,
                   attempted |-> <<n>> \o rest.attempted]

\* the loop of DeleteAllSessions.run(): unlink every listed file, in order;
\* `failing` are the files whose unlink raises OSError
RECURSIVE DeleteBatch(_, _, _)
DeleteBatch(listed, fs, failing) ==
    IF listed = <<>> THEN [files |-> fs, failed |-> FALSE, attempted |-> <<>>]
    ELSE LET n == Head(listed)
             ok == FileExists(fs, n) /\ n \notin failing
             rest == DeleteBatch(Tail(listed), IF ok THEN [fs EXCEPT ![n] = NoFile] ELSE fs,
                                 failing)
         IN  [files |-> rest.files,
              failed |-> (~ok) \/ rest.failed,
              attempted |-> <<n>> \o rest.attempted]

\* the candidates of session_data(), in the order they are tried
TemplateCandidates(template_given) ==
    (IF template_given THEN <<"custom">> ELSE <<>>) \o <<"default">>

\* the read_text() calls of a loop over the first k candidates, with their outcome
ReadTrace(tried, k, readable) ==
    [i \in 1..k |-> [template |-> tried[i], ok |-> tried[i] \in readable]]

\* session_data() giving up at the first candidate that cannot be read
session_data_gives_up(session_path, session_name, template_given, readable) ==
    LET tried == TemplateCandidates(template_given)
    IN  IF tried[1] \notin readable
        THEN [ok |-> FALSE, data |-> <<>>, reads |-> 1,
              trace |-> ReadTrace(tried, 1, readable)]
        ELSE [ok |-> TRUE,
              data |-> Render(IF tried[1] = "custom" THEN CustomTemplate
                              ELSE DefaultTemplate,
                              PathStr(session_path), session_name),
              reads |-> 1, trace |-> ReadTrace(tried, 1, readable)]

\* session_data(): the first readable candidate, rendered; ok = FALSE for `1`;
\* reads = the number of read_text() calls, trace = these calls
session_data(session_path, session_name, template_given, readable) ==
    LET tried == TemplateCandidates(template_given)
        good == {i \in 1..Len(tried) : tried[i] \in readable}
        first == tried[CHOOSE i \in good : \A j \in good : i <= j]
    IN  IF good = {}
        THEN [ok |-> FALSE, data |-> <<>>, reads |-> Len(tried),
              trace |-> ReadTrace(tried, Len(tried), readable)]
        ELSE [ok |-> TRUE,
              data |-> Render(IF first = "custom" THEN CustomTemplate ELSE DefaultTemplate,
                              PathStr(session_path), session_name),
              reads |-> CHOOSE i \in good : \A j \in good : i <= j,
              trace |-> ReadTrace(tried, CHOOSE i \in good : \A j \in good : i <= j,
                                  readable)]

\* ensure_session_file() without the early return for an existing file
ensure_session_file_overwrites(fs, session_name, session_path, template_given, readable, writable) ==
    LET data == session_data(session_path, session_name, template_given, readable)
    IN  IF ~data.ok \/ ~writable
        THEN [ok |-> FALSE, file |-> <<>>, files |-> fs, emits |-> data.reads,
              created |-> FALSE, reads |-> data.trace,
              write |-> IF data.ok THEN "failed" ELSE "none"]
        ELSE [ok |-> TRUE, file |-> SessionFile(session_name),
              files |-> [fs EXCEPT ![session_name] = data.data],
              emits |-> data.reads - 1, created |-> TRUE, reads |-> data.trace,
              write |-> "ok"]

\* ensure_session_file() that returns the path without writing the file
ensure_session_file_skips_write(fs, session_name, session_path, template_given, readable, writable) ==
    [ok |-> TRUE, file |-> SessionFile(session_name), files |-> fs, emits |-> 0,
     created |-> FALSE, reads |-> <<>>, write |-> "none"]

\* ensure_session_file(): ok with the path, or the int 1; `files` is the
\* directory afterwards, `emits` the number of error messages emitted, `reads`
\* the read_text() calls made and `write` the outcome of write_text(), if called
ensure_session_file(fs, session_name, session_path, template_given, readable, writable) ==
    LET data == session_data(session_path, session_name, template_given, readable)
    IN  IF FileExists(fs, session_name)
        THEN [ok |-> TRUE, file |-> SessionFile(session_name), files |-> fs,
              emits |-> 0, created |-> FALSE, reads |-> <<>>, write |-> "none"]
        ELSE IF ~data.ok
        THEN [ok |-> FALSE, file |-> <<>>, files |-> fs, emits |-> data.reads,
              created |-> FALSE, reads |-> data.trace, write |-> "none"]
        ELSE IF ~writable
        THEN [ok |-> FALSE, file |-> <<>>, files |-> fs, emits |-> data.reads,
              created |-> FALSE, reads |-> data.trace, write |-> "failed"]
        ELSE [ok |-> TRUE, file |-> SessionFile(session_name),
              files |-> [fs EXCEPT ![session_name] = data.data],
              emits |-> data.reads - 1, created |-> TRUE, reads |-> data.trace,
              write |-> "ok"]

(***************************************************************************)
(* State                                                                   *)
(***************************************************************************)
VARIABLES
    dirExists,      \* the session directory exists
    files,          \* name -> text of <name>.kitty-session, or NoFile
    logExists,      \* kitty-zoxide-sessions.log exists
    logWrites,      \* records emit() appended to the log in the running invocation
    dirExists0, files0, logExists0,   \* the filesystem when the invocation began
    pc,             \* where the invocation is
    args,           \* the parsed command line
    launcher_window_id, \* KITTY_WINDOW_ID, kept when --auto-close is on the command line
    atexit,         \* arguments of the registered close_launcher_window hooks
    exitCode,       \* what main() returned (1 after an uncaught exception)
    crashed,        \* main() ended by an uncaught exception
    procs,          \* the external processes run so far, in order
    closeCalls,     \* calls of close_launcher_window() made at process exit
    session_files, candidates, selection, selection_status,
    zoxide_paths, entries, entry, resolved_session_file,
    template_reads, \* the read_text() calls of session_data(), with their outcome
    write_result,   \* outcome of write_text() in ensure_session_file(), "none" if not called
    response, attempted, unlink_failed

fsVars == <<dirExists, files, logExists>>
snapVars == <<dirExists0, files0, logExists0>>
selVars == <<session_files, candidates, selection, selection_status>>
ssVars == <<zoxide_paths, entries, entry, resolved_session_file, template_reads,
           write_result>>
daVars == <<response, attempted, unlink_failed>>
vars == <<fsVars, logWrites, snapVars, pc, args, launcher_window_id, atexit, exitCode, crashed, procs,
          closeCalls, selVars, ssVars, daVars>>

\* argparse.Namespace; ok = FALSE is the int parse_args() returns on SystemExit.
\* --debug is left out: it only adds DEBUG records to the log file.
Namespaces ==
    [ok : {TRUE}, edit : BOOLEAN, delete : BOOLEAN, delete_all : BOOLEAN,
     auto_close : BOOLEAN, ansi : BOOLEAN, template : BOOLEAN]
ParseFailures ==
    [ok : {FALSE}, edit : {FALSE}, delete : {FALSE}, delete_all : {FALSE},
     auto_close : BOOLEAN, ansi : {FALSE}, template : {FALSE}]

\* values of KITTY_WINDOW_ID: unset (None), empty, a window id
NoWindow == "<unset>"
WindowIds == {NoWindow, "", "7"}

\* values of EDITOR and what shlex.split() makes of them
NoEditor == "<unset>"
Editors == {NoEditor, "", "vim -p"}
EditorParts(editor) ==
    IF editor = NoEditor \/ editor = "" THEN <<"nvim">> ELSE <<"vim", "-p">>

\* exit codes of a child process that are explored
ChildCodes == {0, 1, 7}

NoLocals ==
    /\ session_files = <<>> /\ candidates = <<>> /\ selection = <<>>
    /\ selection_status = 0 /\ zoxide_paths = <<>> /\ entries = <<>>
    /\ entry = <<>> /\ resolved_session_file = <<>>
    /\ template_reads = <<>> /\ write_result = "none"
    /\ response = <<>> /\ attempted = <<>> /\ unlink_failed = {}

\* any session directory: missing, or holding any set of session files
Init ==
    /\ dirExists \in BOOLEAN
    /\ files \in [Names -> {NoFile, UserContent}]
    /\ dirExists \/ \A n \in Names : files[n] = NoFile
    /\ logExists \in BOOLEAN
    /\ logExists => dirExists
    /\ logWrites = 0
    /\ dirExists0 = dirExists /\ files0 = files /\ logExists0 = logExists
    /\ pc = "idle"
    /\ args = [ok |-> FALSE, edit |-> FALSE, delete |-> FALSE, delete_all |-> FALSE,
               auto_close |-> FALSE, ansi |-> FALSE, template |-> FALSE]
    /\ launcher_window_id = NoWindow
    /\ atexit = <<>>
    /\ exitCode = 0
    /\ crashed = FALSE
    /\ procs = <<>>
    /\ closeCalls = 0
    /\ NoLocals

\* a record of procs: the argv, whether the binary was found, and the exit code
Proc(argv, outcome) ==
    [argv |-> argv, found |-> outcome.found, returncode |-> outcome.returncode]

\* `return code` from main() or from run()
Return(code) ==
    /\ pc' = "returned"
    /\ exitCode' = code

(***************************************************************************)
(* main() up to op.run()                                                   *)
(***************************************************************************)
\* the checks of the flag combination without the second one
InvalidFlags_edit_only(parsed) == parsed.edit /\ (parsed.delete \/ parsed.delete_all)

\* the checks of the flag combination: 1 when main() returns 1 for them
InvalidFlags(parsed) ==
    \/ parsed.edit /\ (parsed.delete \/ parsed.delete_all)
    \/ parsed.delete /\ parsed.delete_all

\* the operation main() picks
OperationOf(parsed) ==
    IF parsed.delete_all THEN "delete_all"
    ELSE IF parsed.delete THEN "delete"
    ELSE IF parsed.edit THEN "edit"
    ELSE "launch"

\* atexit after main() has read the flags
RegisterAtExit(parsed, window) ==
    IF parsed.auto_close THEN <<window>> ELSE <<>>

\* setup_logging(): "ok", or the OSError of mkdir() or of opening the log file
LoggingOutcomes == IF dirExists THEN {"ok", "open_fails"} ELSE {"ok", "mkdir_fails", "open_fails"}

Main ==
    /\ pc = "idle"
    /\ \E parsed \in Namespaces \cup ParseFailures, window \in WindowIds,
          logging \in LoggingOutcomes :
        /\ dirExists0' = dirExists /\ files0' = files /\ logExists0' = logExists
        /\ args' = parsed
        /\ launcher_window_id' = (IF parsed.auto_close THEN window ELSE NoWindow)
        /\ procs' = <<>>
        /\ closeCalls' = 0
        /\ files' = files
        /\ dirExists' = (dirExists \/ logging # "mkdir_fails")
        /\ logExists' = (logExists \/ logging = "ok")
        /\ IF logging # "ok"
           THEN \* uncaught OSError: traceback, exit status 1
                /\ crashed' = TRUE /\ atexit' = <<>> /\ logWrites' = 0
                /\ Return(1)
           ELSE /\ crashed' = FALSE
                /\ IF ~parsed.ok
                   THEN /\ atexit' = <<>> /\ logWrites' = 0 /\ Return(1)
                   ELSE IF InvalidFlags(parsed)
                   THEN /\ atexit' = <<>> /\ logWrites' = 1 /\ Return(1)
                   ELSE /\ atexit' = RegisterAtExit(parsed, window)
                        /\ logWrites' = 0
                        /\ pc' = OperationOf(parsed)
                        /\ exitCode' = 0
    /\ UNCHANGED <<selVars, ssVars, daVars>>

(***************************************************************************)
(* DeleteAllSessions.run()                                                 *)
(***************************************************************************)
SetOf(seq) == {seq[i] : i \in 1..Len(seq)}

DeleteAllSessionsRun ==
    /\ pc = "delete_all"
    /\ LET listed == list_session_files(dirExists, files)
       IN  /\ session_files' = listed
           /\ IF listed = <<>>
              THEN /\ logWrites' = logWrites + 1
                   /\ Return(1)
                   /\ UNCHANGED <<files, daVars>>
              ELSE \E typed \in ConfirmInputs :
                     /\ response' = typed
                     /\ IF ~confirm_delete_all(typed)
                        THEN /\ logWrites' = logWrites + 2
                             /\ Return(1)
                             /\ UNCHANGED <<files, attempted, unlink_failed>>
                        ELSE \E failing \in SUBSET SetOf(listed) :
                               LET r == DeleteBatch(listed, files, failing)
                               IN  /\ files' = r.files
                                   /\ attempted' = r.attempted
                                   /\ unlink_failed' = failing
                                   /\ logWrites' = logWrites + 1 + Cardinality(failing)
                                        + (IF r.failed THEN 0 ELSE 1)
                                   /\ Return(IF r.failed THEN 1 ELSE 0)
    /\ UNCHANGED <<dirExists, logExists, snapVars, args, launcher_window_id, atexit, crashed,
                   procs, closeCalls, candidates, selection, selection_status, ssVars>>

(***************************************************************************)
(* DeleteSession.run()                                                     *)
(***************************************************************************)
\* the text of a sequence of tokens
RECURSIVE Join(_)
Join(tokens) == IF tokens = <<>> THEN "" ELSE tokens[1] \o Join(Tail(tokens))

\* Path.unlink(missing_ok=True)
Unlink_missing_ok(fs, name, permitted) ==
    IF (name \in DOMAIN fs /\ fs[name] # NoFile) /\ permitted
    THEN [files |-> [fs EXCEPT ![name] = NoFile], raised |-> FALSE]
    ELSE [files |-> fs, raised |-> (name \in DOMAIN fs /\ fs[name] # NoFile)]

\* Path.unlink(): the directory afterwards, and whether OSError was raised
Unlink(fs, name, permitted) ==
    IF FileExists(fs, name) /\ permitted
    THEN [files |-> [fs EXCEPT ![name] = NoFile], raised |-> FALSE]
    ELSE [files |-> fs, raised |-> TRUE]

\* candidates of DeleteSession: path.stem of every session file
StemsOf(listed) == [i \in 1..Len(listed) |-> <<listed[i]>>]

DeleteSessionRun ==
    /\ pc = "delete"
    /\ LET listed == list_session_files(dirExists, files)
       IN  /\ session_files' = listed
           /\ IF listed = <<>>
              THEN /\ logWrites' = logWrites + 1
                   /\ Return(1)
                   /\ UNCHANGED <<files, procs, candidates, selection, selection_status,
                                  unlink_failed>>
              ELSE \E outcome \in SelectorOutcomes(StemsOf(listed)), permitted \in BOOLEAN :
                     LET picked == select_item(outcome)
                         session_name == Join(picked[1])
                         r == Unlink(files, session_name, permitted)
                     IN  /\ candidates' = StemsOf(listed)
                         /\ procs' = Append(procs,
                                Proc(FzfCommand("delete session > ", args.ansi), outcome))
                         /\ selection' = picked[1]
                         /\ selection_status' = picked[2]
                         /\ IF picked[2] # 0
                            THEN /\ logWrites' = logWrites + (IF outcome.found THEN 0 ELSE 1)
                                 /\ Return(picked[2])
                                 /\ UNCHANGED <<files, unlink_failed>>
                            ELSE IF picked[1] = <<>>
                            THEN /\ logWrites' = logWrites + 2
                                 /\ Return(1)
                                 /\ UNCHANGED <<files, unlink_failed>>
                            ELSE /\ files' = r.files
                                 /\ unlink_failed' = (IF r.raised THEN {session_name} ELSE {})
                                 /\ logWrites' = logWrites + 1
                                 /\ Return(IF r.raised THEN 1 ELSE 0)
    /\ UNCHANGED <<dirExists, logExists, snapVars, args, launcher_window_id, atexit, crashed,
                   closeCalls, ssVars, response, attempted>>

(***************************************************************************)
(* SessionSelection.run() up to the call of handle_session()               *)
(***************************************************************************)
\* what `zoxide query -l` can do: binary missing, exit 1, or exit 0 with output
ZoxideOutcomes ==
    {[found |-> FALSE, returncode |-> 0, stdout |-> <<>>],
     [found |-> TRUE, returncode |-> 1, stdout |-> <<>>]}
    \cup {[found |-> TRUE, returncode |-> 0, stdout |-> out] : out \in ZoxideOutputs}

\* run_zoxide(): ok = FALSE stands for None
run_zoxide(outcome) ==
    IF outcome.found /\ outcome.returncode = 0
    THEN [ok |-> TRUE, stdout |-> outcome.stdout]
    ELSE [ok |-> FALSE, stdout |-> <<>>]

\* session_name of the resolved entry
SessionNameOf(e) == IF e[2] = SESSION_ENTRY THEN PathStem(e[3]) ELSE PathName(e[3])

\* readable templates: any subset of the custom and the bundled one
TemplateFiles == {"custom", "default"}

SessionSelectionRun ==
    /\ pc \in {"launch", "edit"}
    /\ \E zo \in ZoxideOutcomes, mkdir_ok \in (IF dirExists THEN {TRUE} ELSE BOOLEAN) :
        LET zoxide_output == run_zoxide(zo)
            paths == ZoxidePathsOf(zoxide_output.stdout)
            listed == list_session_files(TRUE, files)
            es == BuildEntries(listed, paths, args.ansi)
            ran == Append(procs, Proc(<<"zoxide", "query", "-l">>, zo))
        IN  /\ IF ~zoxide_output.ok
               THEN /\ procs' = ran
                    /\ logWrites' = logWrites + 1
                    /\ Return(1)
                    /\ UNCHANGED <<fsVars, selVars, ssVars>>
               ELSE IF ~mkdir_ok
               THEN /\ procs' = ran
                    /\ logWrites' = logWrites + 1
                    /\ Return(1)
                    /\ zoxide_paths' = paths
                    /\ UNCHANGED <<fsVars, selVars, entries, entry, resolved_session_file,
                                   template_reads, write_result>>
               ELSE /\ zoxide_paths' = paths
                    /\ dirExists' = TRUE
                    /\ logExists' = logExists
                    /\ session_files' = listed
                    /\ entries' = es
                    /\ candidates' = LabelsOf(es)
                    /\ IF es = <<>>
                       THEN /\ procs' = ran
                            /\ logWrites' = logWrites + 1
                            /\ Return(1)
                            /\ UNCHANGED <<files, selection, selection_status, entry,
                                           resolved_session_file, template_reads,
                                           write_result>>
                       ELSE \E outcome \in SelectorOutcomes(LabelsOf(es)) :
                              LET picked == select_item(outcome)
                                  e == ResolveEntry(es, picked[1])
                              IN  /\ procs' = Append(ran,
                                         Proc(FzfCommand("session > ", args.ansi), outcome))
                                  /\ selection' = picked[1]
                                  /\ selection_status' = picked[2]
                                  /\ IF picked[2] # 0
                                     THEN /\ logWrites' = logWrites
                                               + (IF outcome.found THEN 0 ELSE 1)
                                          /\ Return(picked[2])
                                          /\ UNCHANGED <<files, entry, resolved_session_file,
                                                         template_reads, write_result>>
                                     ELSE IF picked[1] = <<>>
                                     THEN /\ logWrites' = logWrites + 2
                                          /\ Return(1)
                                          /\ UNCHANGED <<files, entry, resolved_session_file,
                                                         template_reads, write_result>>
                                     ELSE IF e = <<>>
                                     THEN /\ logWrites' = logWrites + 1
                                          /\ Return(1)
                                          /\ UNCHANGED <<files, entry, resolved_session_file,
                                                         template_reads, write_result>>
                                     ELSE IF e[2] = SESSION_ENTRY
                                     THEN /\ entry' = e
                                          /\ resolved_session_file' = e[3]
                                          /\ logWrites' = logWrites
                                          /\ pc' = "handle"
                                          /\ UNCHANGED <<files, exitCode, template_reads,
                                                         write_result>>
                                     ELSE \E readable \in SUBSET TemplateFiles,
                                             writable \in BOOLEAN :
                                            LET r == ensure_session_file(files,
                                                        SessionNameOf(e), e[3],
                                                        args.template, readable, writable)
                                            IN  /\ entry' = e
                                                /\ files' = r.files
                                                /\ resolved_session_file' = r.file
                                                /\ template_reads' = r.reads
                                                /\ write_result' = r.write
                                                /\ logWrites' = logWrites + r.emits
                                                /\ IF r.ok
                                                   THEN pc' = "handle" /\ exitCode' = exitCode
                                                   ELSE Return(1)
    /\ UNCHANGED <<snapVars, args, launcher_window_id, atexit, crashed, closeCalls, daVars>>

(***************************************************************************)
(* handle_session()                                                        *)
(***************************************************************************)
\* str(session_file)
SessionFileStr(f) == f[1] \o "/" \o f[2] \o ".kitty-session"

\* what running a child can do: binary missing (FileNotFoundError), or an exit code
ChildOutcomes ==
    {[found |-> FALSE, returncode |-> 0]}
    \cup {[found |-> TRUE, returncode |-> rc] : rc \in ChildCodes}

\* LaunchSession.handle_session(): the value returned
LaunchHandleSession(outcome) == IF outcome.found THEN outcome.returncode ELSE 1

\* launch_editor() that reports success whenever the editor ran
launch_editor_returns_zero(outcome) == IF outcome.found THEN 0 ELSE 1

\* EditSession.launch_editor(): the value returned
launch_editor(outcome) == IF outcome.found THEN outcome.returncode ELSE 1

LaunchSessionHandle ==
    /\ pc = "handle"
    /\ ~args.edit
    /\ \E outcome \in ChildOutcomes :
        /\ procs' = Append(procs,
              Proc(<<"kitten", "@", "action", "goto_session",
                     SessionFileStr(resolved_session_file)>>, outcome))
        /\ logWrites' = logWrites + (IF outcome.found THEN 0 ELSE 1)
        /\ Return(LaunchHandleSession(outcome))
    /\ UNCHANGED <<fsVars, snapVars, args, launcher_window_id, atexit, crashed, closeCalls,
                   selVars, ssVars, daVars>>

EditSessionHandle ==
    /\ pc = "handle"
    /\ args.edit
    /\ \E editor \in Editors, outcome \in ChildOutcomes :
        /\ procs' = Append(procs,
              Proc(Append(EditorParts(editor), SessionFileStr(resolved_session_file)),
                   outcome))
        /\ logWrites' = logWrites + (IF outcome.found THEN 0 ELSE 1)
        /\ Return(launch_editor(outcome))
    /\ UNCHANGED <<fsVars, snapVars, args, launcher_window_id, atexit, crashed, closeCalls,
                   selVars, ssVars, daVars>>

(***************************************************************************)
(* Process exit: the atexit hooks run, the memory of the process is gone   *)
(***************************************************************************)
\* close_launcher_window() without the check of the window id
close_launcher_window_unchecked(window_id, outcome) ==
    <<Proc(<<"kitty", "@", "close-window", "--match", "id:" \o window_id>>, outcome)>>

\* close_launcher_window(): the remote-control calls it makes
close_launcher_window(window_id, outcome) ==
    IF window_id = NoWindow \/ window_id = "" THEN <<>>
    ELSE <<Proc(<<"kitty", "@", "close-window", "--match", "id:" \o window_id>>, outcome)>>

ProcessExit ==
    /\ pc = "returned"
    /\ pc' = "exited"
    /\ \E outcome \in {o \in ChildOutcomes : o.returncode \in {0, 1}} :
        IF atexit = <<>>
        THEN UNCHANGED <<procs, closeCalls>>
        ELSE /\ procs' = procs \o close_launcher_window(atexit[1], outcome)
             /\ closeCalls' = closeCalls + 1
    /\ session_files' = <<>> /\ candidates' = <<>> /\ selection' = <<>>
    /\ selection_status' = 0 /\ zoxide_paths' = <<>> /\ entries' = <<>>
    /\ entry' = <<>> /\ resolved_session_file' = <<>>
    /\ template_reads' = <<>> /\ write_result' = "none"
    /\ response' = <<>> /\ attempted' = <<>> /\ unlink_failed' = {}
    /\ UNCHANGED <<fsVars, logWrites, snapVars, args, launcher_window_id, atexit, exitCode,
                   crashed>>

\* the next invocation is a new process: nothing but the filesystem is left
NextInvocation ==
    /\ pc = "exited"
    /\ pc' = "idle"
    /\ logWrites' = 0
    /\ dirExists0' = dirExists /\ files0' = files /\ logExists0' = logExists
    /\ args' = [ok |-> FALSE, edit |-> FALSE, delete |-> FALSE, delete_all |-> FALSE,
                auto_close |-> FALSE, ansi |-> FALSE, template |-> FALSE]
    /\ launcher_window_id' = NoWindow
    /\ atexit' = <<>>
    /\ exitCode' = 0
    /\ crashed' = FALSE
    /\ procs' = <<>>
    /\ closeCalls' = 0
    /\ UNCHANGED <<fsVars, selVars, ssVars, daVars>>

Next ==
    \/ Main
    \/ DeleteAllSessionsRun
    \/ DeleteSessionRun
    \/ SessionSelectionRun
    \/ LaunchSessionHandle
    \/ EditSessionHandle
    \/ ProcessExit
    \/ NextInvocation

Spec == Init /\ [][Next]_vars

(***************************************************************************)
(* ensure_session_file() on its own: any sequence of calls, with any path   *)
(* and template, on any session directory                                  *)
(***************************************************************************)
EnsureCall ==
    /\ pc \in {"idle", "ensure"}
    /\ pc' = "ensure"
    /\ \E p \in ZPaths, template_given \in BOOLEAN, readable \in SUBSET TemplateFiles,
          writable \in (IF dirExists THEN BOOLEAN ELSE {FALSE}) :
        LET r == ensure_session_file(files, PathName(p), p, template_given, readable,
                                     writable)
        IN  /\ files0' = files
            /\ files' = r.files
            /\ args' = [args EXCEPT !.ok = TRUE, !.template = template_given]
            /\ entry' = <<label("[zoxide]", FALSE) \o <<" ", PathStr(p)>>, PATH_ENTRY, p>>
            /\ resolved_session_file' = r.file
            /\ template_reads' = r.reads
            /\ write_result' = r.write
            /\ exitCode' = (IF r.ok THEN 0 ELSE 1)
    /\ UNCHANGED <<dirExists, logExists, logWrites, dirExists0, logExists0,
                   launcher_window_id, atexit, crashed, procs, closeCalls, selVars,
                   zoxide_paths, entries, daVars>>

SpecEnsure == Init /\ [][EnsureCall]_vars

(***************************************************************************)
(* Properties.  Their vocabulary is defined here, from the state alone.    *)
(***************************************************************************)
\* the command line names an invalid combination of flags
FlagsInvalid ==
    \/ args.edit /\ args.delete
    \/ args.edit /\ args.delete_all
    \/ args.delete /\ args.delete_all

\* main() reached op.run()
ValidRun == args.ok /\ ~crashed /\ ~FlagsInvalid
IsDeleteAll == ValidRun /\ args.delete_all
IsDelete == ValidRun /\ args.delete /\ ~args.delete_all
IsEdit == ValidRun /\ args.edit
IsLaunch == ValidRun /\ ~args.edit /\ ~args.delete /\ ~args.delete_all

\* the session files present when the invocation began
Existing0 == {n \in Names : files0[n] # NoFile}

\* the processes of procs started from a given binary
ProcsOf(binaries) == {i \in 1..Len(procs) : procs[i].argv[1] \in binaries}
LastProc == procs[Len(procs)]

\* the text of the path of the session file of a name
ExpectedFileStr(n) == "kitty-sessions/" \o n \o ".kitty-session"

\* the answer is a yes: literally (any case), and after trimming whitespace
Yes == <<"y", "e", "s">>
LiteralYes == response # EOF /\ Lower(response) = Yes
TrimmedYes == response # EOF /\ Lower(Strip(response)) = Yes

C2_Original ==
    (pc = "returned" /\ IsDeleteAll /\ Existing0 # {} /\ ~LiteralYes) =>
        /\ exitCode = 1
        /\ \A n \in Existing0 : files[n] # NoFile

(* C2, amended: DeleteAll with a session file present and an answer that,    *)
(* with leading and trailing whitespace removed, is not "yes" in some letter *)
(* case (end of input included) returns 1 and every session file that        *)
(* existed still exists.                                                     *)
C2_DeleteAllCancelKeepsFiles ==
    (pc = "returned" /\ IsDeleteAll /\ Existing0 # {} /\ ~TrimmedYes) =>
        /\ exitCode = 1
        /\ \A n \in Existing0 : files[n] # NoFile

C2_Witness ==
    /\ pc = "returned" /\ IsDeleteAll /\ Cardinality(Existing0) = 2
    /\ response = <<"n", "o">>
    /\ exitCode = 1 /\ \A n \in Existing0 : files[n] # NoFile

(* C3: DeleteAll after confirmation attempts the delete of every session     *)
(* file listed at the start, whatever fails; a file whose delete succeeds is *)
(* gone, and the exit code is 1 if some delete failed and 0 if none did.     *)
C3_DeleteAllAttemptsEveryFile ==
    (pc = "returned" /\ IsDeleteAll /\ Existing0 # {} /\ TrimmedYes) =>
        /\ SetOf(session_files) = Existing0
        /\ attempted = session_files
        /\ \A n \in Existing0 :
              IF n \in unlink_failed THEN files[n] = files0[n] ELSE files[n] = NoFile
        /\ exitCode = (IF unlink_failed = {} THEN 0 ELSE 1)

C3_Witness ==
    /\ pc = "returned" /\ IsDeleteAll /\ TrimmedYes
    /\ Len(session_files) = 2
    /\ unlink_failed = {session_files[1]}
    /\ files[session_files[1]] # NoFile
    /\ files[session_files[2]] = NoFile
    /\ exitCode = 1

(* C4: a call of ensure_session_file for a name whose session file exists    *)
(* returns the path of that file and leaves every file as it was, for any    *)
(* source path and any template argument; a call repeated after a successful *)
(* one is such a call.                                                       *)
C4_EnsureNeverOverwrites ==
    (pc = "ensure" /\ files0[PathName(entry[3])] # NoFile) =>
        /\ resolved_session_file = <<"kitty-sessions", PathName(entry[3])>>
        /\ exitCode = 0
        /\ files = files0

\* the file of "a" was written for /x/a from the custom template, and the call
\* is for /y/a without a custom template
C4_Witness ==
    /\ pc = "ensure"
    /\ entry[3] = <<"y", "a">> /\ ~args.template
    /\ files0["a"] = <<"path=", "/x/a", " name=", "a">>
    /\ files = files0
    /\ resolved_session_file = <<"kitty-sessions", "a">>

\* order of two session names by their file names, and by the names themselves
ByFileName(n, m) == StrLess(NameChars(n) \o ExtChars, NameChars(m) \o ExtChars)
ByName(n, m) == StrLess(NameChars(n), NameChars(m))

\* the frecency paths that no session file shadows, by their index in the
\* output of the frecency tool, and the rank of such an index among them
KeptIdx == {j \in 1..Len(zoxide_paths) : PathName(zoxide_paths[j]) \notin Existing0}
Rank(j) == Cardinality({i \in KeptIdx : i <= j})

\* the candidate list: one session entry per session file, ascending by Less,
\* then the frecency paths that no session file shadows, in their order
CandidateList(Less(_, _)) ==
    LET k == Cardinality(Existing0)
    IN  /\ Len(entries) = k + Cardinality(KeptIdx)
        /\ \A i \in 1..k :
              /\ entries[i][2] = SESSION_ENTRY
              /\ \E n \in Existing0 : entries[i][3] = <<"kitty-sessions", n>>
        /\ \A i, j \in 1..k : i < j => Less(entries[i][3][2], entries[j][3][2])
        /\ \A j \in KeptIdx :
              /\ entries[k + Rank(j)][2] = PATH_ENTRY
              /\ entries[k + Rank(j)][3] = zoxide_paths[j]

\* Launch or Edit has built its candidate list
ListBuilt == pc \in {"handle", "returned"} /\ (IsLaunch \/ IsEdit) /\ entries # <<>>

(* C5, as stated: the candidate list of Launch/Edit is one entry per session *)
(* file, sorted by session name, then the frecency paths whose base name is  *)
(* no session name, all of them and in their original order.                 *)
C5_Original == ListBuilt => CandidateList(ByName)

(* C5, amended: the candidate list of Launch/Edit is one entry per session   *)
(* file, sorted by file name (<name>.kitty-session compared as a string, so  *)
(* "a-b" comes before "a"), then the frecency paths whose base name is no    *)
(* session name, all of them and in their original order.                    *)
C5_CandidateListByFileName == ListBuilt => CandidateList(ByFileName)

C5_Witness ==
    /\ pc = "handle" /\ IsLaunch
    /\ Existing0 = {"a"}
    /\ zoxide_paths = << <<"x", "a">>, <<"x", "a-b">> >>
    /\ Len(entries) = 2
    /\ entries[1][3] = <<"kitty-sessions", "a">>
    /\ entries[2][3] = <<"x", "a-b">>

\* the templates rendered for a path and a name
RenderedCustom(p, n) == <<"path=", PathStr(p), " name=", n>>
RenderedDefault(p, n) == <<"new_tab ", n, "cd ", PathStr(p), "launch --title ", n>>

\* the selection was resolved and the session file settled
Resolved == entry # <<>> /\ resolved_session_file # <<>>
GotoSession(n) == <<"kitten", "@", "action", "goto_session", ExpectedFileStr(n)>>

(* C6: in Launch, after a frecency entry (P, N) is resolved, the session     *)
(* file of N holds the template rendered for (P, N) while the multiplexer    *)
(* has not been invoked yet, and the multiplexer is then invoked exactly     *)
(* once, with the path of that file; after a session entry is resolved the   *)
(* multiplexer is invoked with the path of that existing file and no session *)
(* file is created or written.                                               *)
C6_LaunchEnsuresThenOpens ==
    /\ Cardinality(ProcsOf({"kitten"})) <= 1
    /\ (pc \in {"handle", "returned"} /\ IsLaunch /\ Resolved) =>
          LET n == IF entry[2] = PATH_ENTRY THEN PathName(entry[3]) ELSE entry[3][2]
          IN  /\ resolved_session_file = <<"kitty-sessions", n>>
              /\ IF entry[2] = PATH_ENTRY
                 THEN /\ files0[n] = NoFile
                      /\ files[n] \in {RenderedDefault(entry[3], n)}
                            \cup (IF args.template THEN {RenderedCustom(entry[3], n)} ELSE {})
                      /\ \A m \in Names \ {n} : files[m] = files0[m]
                 ELSE /\ files0[n] # NoFile
                      /\ files = files0
              /\ pc = "handle" => ProcsOf({"kitten"}) = {}
              /\ pc = "returned" =>
                    /\ Cardinality(ProcsOf({"kitten"})) = 1
                    /\ LastProc.argv = GotoSession(n)

C6_Witness ==
    /\ pc = "returned" /\ IsLaunch /\ Resolved
    /\ entry[2] = PATH_ENTRY /\ entry[3] = <<"y", "a">>
    /\ files0["a"] = NoFile
    /\ files["a"] = RenderedCustom(<<"y", "a">>, "a")
    /\ LastProc.argv = GotoSession("a") /\ LastProc.found

(* C7: when Launch or Edit hands the session file to the multiplexer or the  *)
(* editor, the exit code is the exit code of that child, whatever it is, and *)
(* 1 when the binary of the child is missing.                                *)
C7_ChildExitCodePropagates ==
    (pc = "returned" /\ (IsLaunch \/ IsEdit) /\ Resolved) =>
        /\ LastProc.argv[1] \in (IF IsEdit THEN {"nvim", "vim"} ELSE {"kitten"})
        /\ LastProc.argv[Len(LastProc.argv)] = ExpectedFileStr(resolved_session_file[2])
        /\ exitCode = (IF LastProc.found THEN LastProc.returncode ELSE 1)

C7_Witness ==
    /\ pc = "returned" /\ IsEdit /\ Resolved
    /\ LastProc.argv[1] = "vim" /\ LastProc.found /\ LastProc.returncode = 7
    /\ exitCode = 7

\* the selector was run and gave no selection
SelectorProc == procs[CHOOSE i \in ProcsOf({"fzf"}) : TRUE]
NoSelection ==
    /\ ProcsOf({"fzf"}) # {}
    /\ ~SelectorProc.found \/ SelectorProc.returncode # 0 \/ selection = <<>>

(* C8: in Launch, Edit and Delete, when the selector gives no selection the  *)
(* exit code is 2 if the selector exited non-zero and 1 if its binary is     *)
(* missing or the selection is empty; no session file is created, modified   *)
(* or deleted and neither the editor nor the multiplexer is invoked.         *)
C8_NoSelectionTouchesNothing ==
    (pc = "returned" /\ (IsLaunch \/ IsEdit \/ IsDelete) /\ NoSelection) =>
        /\ exitCode = (IF ~SelectorProc.found THEN 1
                       ELSE IF SelectorProc.returncode # 0 THEN 2 ELSE 1)
        /\ files = files0
        /\ ProcsOf({"kitten", "nvim", "vim"}) = {}
        /\ LastProc = SelectorProc

C8_Witness ==
    /\ pc = "returned" /\ IsEdit /\ NoSelection
    /\ SelectorProc.found /\ SelectorProc.returncode = 130
    /\ exitCode = 2 /\ Existing0 # {} /\ files = files0

\* --auto-close was given and KITTY_WINDOW_ID names a window
WindowGiven == launcher_window_id # NoWindow /\ launcher_window_id # ""
CloseWindow == <<"kitty", "@", "close-window", "--match", "id:" \o launcher_window_id>>

C10_DeleteRemovesOnlyThePick ==
    (pc = "returned" /\ IsDelete /\ Existing0 # {}) =>
        /\ Len(candidates) = Cardinality(Existing0)
        /\ SetOf(candidates) = {<<n>> : n \in Existing0}
        /\ (selection_status = 0 /\ selection # <<>>) =>
              LET n == Join(selection)
              IN  /\ n \notin Existing0 => unlink_failed = {n}
                  /\ unlink_failed \subseteq {n}
                  /\ IF unlink_failed = {}
                     THEN exitCode = 0 /\ files = [files0 EXCEPT ![n] = NoFile]
                     ELSE exitCode = 1 /\ files = files0

C10_Witness ==
    /\ pc = "returned" /\ IsDelete /\ Existing0 = Names
    /\ selection = <<"a">> /\ exitCode = 0
    /\ files["a"] = NoFile /\ files["a-b"] = files0["a-b"]

\* the frecency entries of the candidate list, by their index in the list
FrecencyIdx == {i \in 1..Len(entries) : entries[i][2] = PATH_ENTRY}

\* the earliest path of the output of the frecency tool with a base name
EarliestWithName(n) ==
    zoxide_paths[CHOOSE k \in 1..Len(zoxide_paths) :
                    /\ PathName(zoxide_paths[k]) = n
                    /\ \A l \in 1..(k - 1) : PathName(zoxide_paths[l]) # n]

(* C11: among the frecency entries of one candidate list no two have the     *)
(* same base name, and the entry of a base name is the earliest frecency     *)
(* path with that base name.                                                 *)
C11_FirstOccurrencePerNameWins ==
    ListBuilt =>
        \A i \in FrecencyIdx :
            /\ \A j \in FrecencyIdx \ {i} :
                  PathName(entries[j][3]) # PathName(entries[i][3])
            /\ entries[i][3] = EarliestWithName(PathName(entries[i][3]))

\* Launch or Edit got a non-empty selection from the selector
SelectionMade ==
    /\ ListBuilt /\ ProcsOf({"fzf"}) # {}
    /\ selection_status = 0 /\ selection # <<>>

\* the entries whose label, without escape codes, is the selection without
\* escape codes, and the first of them
Matching == {i \in 1..Len(entries) : strip_ansi(entries[i][1]) = strip_ansi(selection)}
FirstMatching == CHOOSE i \in Matching : \A j \in Matching : i <= j

(* C12: when the selection is the label of an entry of the candidate list,   *)
(* decorated as generated or without its decoration, it resolves to the      *)
(* first entry whose label without escape codes equals the selection without *)
(* escape codes, with the kind and value of that entry; a selection equal to *)
(* no label without escape codes ends the invocation with exit code 1, no    *)
(* session file created or changed, and neither editor nor multiplexer run.  *)
C12_ResolutionIgnoresAnsi ==
    SelectionMade =>
        /\ \A i \in 1..Len(entries) :
              selection \in {entries[i][1], strip_ansi(entries[i][1])} =>
                  /\ Matching # {}
                  /\ FirstMatching <= i
                  /\ entry = entries[FirstMatching]
        /\ Matching # {} => entry = entries[FirstMatching]
        /\ Matching = {} =>
              /\ entry = <<>>
              /\ pc = "returned" /\ exitCode = 1
              /\ files = files0
              /\ ProcsOf({"kitten", "nvim", "vim"}) = {}

\* with --ansi the selector gave the label of the second entry without its
\* decoration, and the second entry was resolved
C12_Witness ==
    /\ pc = "handle" /\ IsLaunch /\ SelectionMade /\ args.ansi
    /\ Len(entries) = 2
    /\ selection = strip_ansi(entries[2][1])
    /\ selection # entries[2][1]
    /\ entry = entries[2]

\* Launch or Edit resolved a frecency entry and called ensure_session_file()
\* for it, and the session file of its base name did not exist
EnsureHadToCreate ==
    /\ pc \in {"handle", "returned"} /\ (IsLaunch \/ IsEdit)
    /\ entry # <<>> /\ entry[2] = PATH_ENTRY
    /\ files0[PathName(entry[3])] = NoFile

\* the template candidates in the order of the claim: custom if given, default
CandidateOrder == IF args.template THEN <<"custom", "default">> ELSE <<"default">>
RenderedFrom(t, p, n) ==
    IF t = "custom" THEN RenderedCustom(p, n) ELSE RenderedDefault(p, n)

(* C13: when ensure_session_file has to create the file, the templates are   *)
(* read in the order custom (if given), default, every read but the last one *)
(* having failed; a failed read is followed by the next candidate as long as *)
(* one remains; the first template read successfully is rendered and         *)
(* written; when no read succeeds the invocation returns 1 with no session   *)
(* file created and no write attempted; a failed write also returns 1.       *)
C13_TemplateFallbackOrder ==
    EnsureHadToCreate =>
        LET k == Len(template_reads)
            n == PathName(entry[3])
        IN  /\ k \in 1..Len(CandidateOrder)
            /\ \A i \in 1..k : template_reads[i].template = CandidateOrder[i]
            /\ \A i \in 1..(k - 1) : ~template_reads[i].ok
            /\ ~template_reads[k].ok => k = Len(CandidateOrder)
            /\ IF template_reads[k].ok
               THEN /\ write_result \in {"ok", "failed"}
                    /\ write_result = "ok" =>
                          /\ files = [files0 EXCEPT
                                        ![n] = RenderedFrom(CandidateOrder[k], entry[3], n)]
                          /\ resolved_session_file = <<"kitty-sessions", n>>
                    /\ write_result = "failed" =>
                          /\ pc = "returned" /\ exitCode = 1
                          /\ ProcsOf({"kitten", "nvim", "vim"}) = {}
               ELSE /\ write_result = "none"
                    /\ files = files0
                    /\ pc = "returned" /\ exitCode = 1
                    /\ ProcsOf({"kitten", "nvim", "vim"}) = {}

\* the custom template could not be read, the default one was rendered and written
C13_Witness ==
    /\ pc = "handle" /\ IsEdit /\ EnsureHadToCreate /\ args.template
    /\ Len(template_reads) = 2
    /\ ~template_reads[1].ok /\ template_reads[2].ok
    /\ write_result = "ok"
    /\ files["a-b"] = RenderedDefault(<<"x", "a-b">>, "a-b")

\* Launch or Edit is running (from the dispatch in main() to its return)
InLaunchOrEdit == pc \in {"launch", "edit", "handle"}
\* the session files that the running invocation created
CreatedNow == {n \in Names : files0[n] = NoFile /\ files[n] # NoFile}

\* a step of Launch or Edit deletes no session file and changes none
LaunchEditKeepFiles ==
    InLaunchOrEdit => \A n \in Names : files[n] # NoFile => files'[n] = files[n]

\* a step changes an existing session file only by removing it, in Delete or
\* DeleteAll
OnlyDeleteRemoves ==
    \A n \in Names :
        (files[n] # NoFile /\ files'[n] # files[n]) =>
            files'[n] = NoFile /\ pc \in {"delete", "delete_all"}

\* an invocation of Launch or Edit created at most one session file, and only
\* for the frecency entry selected, named after the base name of its path
AtMostOneCreated ==
    (pc \in {"handle", "returned"} /\ (IsLaunch \/ IsEdit)) =>
        /\ Cardinality(CreatedNow) <= 1
        /\ \A n \in Names : files0[n] # NoFile => files[n] = files0[n]
        /\ \A n \in CreatedNow :
              /\ entry # <<>> /\ entry[2] = PATH_ENTRY
              /\ n = PathName(entry[3])

\* no frecency entry of a candidate list has the base name of a session file
\* that existed when the invocation began
ExistingShadows ==
    ListBuilt => \A i \in FrecencyIdx : files0[PathName(entries[i][3])] = NoFile

(* C14: over any sequence of invocations, no step of Launch or Edit deletes  *)
(* a session file or changes the content of an existing one, and an          *)
(* invocation of Launch or Edit creates at most one session file, only for   *)
(* the selected frecency entry and named after the base name of its path; a  *)
(* session file keeps the content it was first written with until a step of  *)
(* Delete or DeleteAll removes it, and while it exists no candidate list has *)
(* a frecency entry with its base name.                                      *)
C14_LaunchEditPreserveSessions ==
    /\ [][LaunchEditKeepFiles /\ OnlyDeleteRemoves]_vars
    /\ [](AtMostOneCreated /\ ExistingShadows)

\* an earlier invocation wrote the session file of "a" for /x/a; a later
\* Launch gets /y/a and /x/a-b from the frecency tool, offers the session "a"
\* and /x/a-b only, and creates the session file of "a-b"
C14_Witness ==
    /\ pc = "handle" /\ IsLaunch
    /\ files0["a"] = RenderedDefault(<<"x", "a">>, "a")
    /\ files0["a-b"] = NoFile
    /\ zoxide_paths = << <<"y", "a">>, <<"x", "a-b">> >>
    /\ Len(entries) = 2
    /\ entry[3] = <<"x", "a-b">>
    /\ files["a"] = files0["a"]
    /\ CreatedNow = {"a-b"}

====
